---- MODULE Spec2Model ----
(***************************************************************************)
(* Model of src/src/matrix.rs: the dense Matrix<T> container and the       *)
(* no-pivoting Gaussian elimination solver built on it.                    *)
(*                                                                         *)
(* Element type.  Matrix<T> is generic over T: Real.  The elements are     *)
(* modelled as exact rationals <<num, den>> (den > 0, lowest terms)        *)
(* extended with the three values a floating-point division by zero        *)
(* produces: <<1, 0>> = +inf, <<-1, 0>> = -inf, <<0, 0>> = NaN.  Rounding   *)
(* is not modelled; the sign of zero is not modelled (every zero is +0).   *)
(*                                                                         *)
(* Indices are 0-based as in the source; At(m, i, k) reads m[i][k].        *)
(***************************************************************************)
EXTENDS Integers, Sequences, FiniteSets

\* ---------------------------------------------------------------------
\* Bounds of the explored inputs
\* ---------------------------------------------------------------------
\* largest number of rows of an input matrix
MaxN == 3
\* input elements are drawn from 0..MaxVal (one overridden cell: -1..MaxVal)
MaxVal == 2

\* ---------------------------------------------------------------------
\* Element arithmetic (T: Real)
\* ---------------------------------------------------------------------
AbsInt(n) == IF n < 0 THEN -n ELSE n

SignInt(n) == IF n < 0 THEN -1 ELSE IF n > 0 THEN 1 ELSE 0

RECURSIVE GCD(_, _)
GCD(a, b) == IF b = 0 THEN a ELSE GCD(b, a % b)

\* the value n/d in canonical form; d = 0 yields +inf, -inf or NaN
Norm(n, d) ==
    IF d = 0 THEN <<SignInt(n), 0>>
    ELSE IF n = 0 THEN <<0, 1>>
    ELSE LET g == GCD(AbsInt(n), AbsInt(d))
         IN  <<(SignInt(d) * n) \div g, AbsInt(d) \div g>>

Zero == <<0, 1>>

NaN == <<0, 0>>

FromInt(n) == <<n, 1>>

IsFinite(a) == a[2] # 0

\* a == b on T: NaN is equal to nothing, itself included
Eq(a, b) == a = b /\ a # NaN

\* a == zero()
IsZero(a) == Eq(a, Zero)

Neg(a) == <<-a[1], a[2]>>

Add(a, b) ==
    IF a = NaN \/ b = NaN THEN NaN
    ELSE IF ~IsFinite(a) /\ ~IsFinite(b) THEN (IF a = b THEN a ELSE NaN)
    ELSE IF ~IsFinite(a) THEN a
    ELSE IF ~IsFinite(b) THEN b
    ELSE Norm(a[1] * b[2] + b[1] * a[2], a[2] * b[2])

Sub(a, b) == Add(a, Neg(b))

Mul(a, b) == Norm(a[1] * b[1], a[2] * b[2])

\* 1/a: 1/0 = +inf, 1/inf = 0, 1/NaN = NaN
Recip(a) == IF a[1] < 0 THEN <<-a[2], -a[1]>> ELSE <<a[2], a[1]>>

\* a / b: x/0 = +-inf for x # 0, 0/0 = NaN; never traps
Div(a, b) == Mul(a, Recip(b))

Abs(a) == <<AbsInt(a[1]), a[2]>>

\* a >= 0 on T (false for NaN)
GeZero(a) == a # NaN /\ a[1] >= 0

\* ---------------------------------------------------------------------
\* Matrix<T>
\* ---------------------------------------------------------------------
\* Matrix::new(rows, cols): the zero-filled matrix
MatrixNew(rows, cols) ==
    [rows |-> rows, cols |-> cols,
     matrix |-> [r \in 1..rows |-> [c \in 1..cols |-> Zero]]]

\* Matrix::new_column_matrix(size)
NewColumnMatrix(size) == MatrixNew(size, 1)

\* Index: self[i][k]
At(m, i, k) == m.matrix[i + 1][k + 1]

\* IndexMut: self[i][k] = v
Set(m, i, k, v) == [m EXCEPT !.matrix[i + 1][k + 1] = v]

\* Clone: a fresh matrix of the same shape, filled element by element
Clone(m) ==
    [rows |-> m.rows, cols |-> m.cols,
     matrix |-> [r \in 1..m.rows |-> [c \in 1..m.cols |-> At(m, r - 1, c - 1)]]]

\* a function's return: a value, or a panic (ok = FALSE)
Returned(m) == [ok |-> TRUE, val |-> m]

Panicked == [ok |-> FALSE, val |-> MatrixNew(0, 0)]

\* the divisor echelon(row, _) uses for its factor
EchelonPivot(m, row) == At(m, row, row)

\* faulty variant of EchelonCols: the column loop starts one past the pivot column
EchelonColsSkipPivot(m, row) == (row + 1) .. m.rows

\* the columns echelon(row, _) updates: row..self.rows + 1
EchelonCols(m, row) == row .. m.rows

\* echelon(row, row_against): subtract factor * (row `row`) from row
\* row_against + 1, over the columns row..rows.  Row `row` is not the row
\* written (row_against >= row), so the column loop is one simultaneous
\* update.
Echelon(m, row, row_against) ==
    IF IsZero(At(m, row, row))
    THEN [err |-> TRUE, m |-> m]
    ELSE LET factor == Div(At(m, row_against + 1, row), EchelonPivot(m, row))
             target == row_against + 1
         IN  [err |-> FALSE,
              m |-> [m EXCEPT !.matrix[target + 1] =
                       [c \in 1..m.cols |->
                          IF (c - 1) \in EchelonCols(m, row)
                          THEN Sub(At(m, target, c - 1),
                                   Mul(factor, At(m, row, c - 1)))
                          ELSE At(m, target, c - 1)]]]

\* faulty variant of EliminateRows: the row loop stops before row 0
EliminateRowsSkipFirst(i) == 1 .. (i - 1)

\* the rows eliminate(i) updates: j - 1 for j in (1..i + 1).rev()
EliminateRows(i) == 0 .. (i - 1)

\* eliminate(i): subtract factor * (row i) from every row above i, over the
\* columns rows..0.  Row i is never written and each row above it is
\* written from its own old values, so the loops are one simultaneous update.
Eliminate(m, i) ==
    IF IsZero(At(m, i, i))
    THEN [err |-> TRUE, m |-> m]
    ELSE [err |-> FALSE,
          m |-> [m EXCEPT !.matrix =
                   [r \in 1..m.rows |->
                      IF (r - 1) \in EliminateRows(i)
                      THEN LET factor == Div(At(m, r - 1, i), At(m, i, i))
                           IN  [c \in 1..m.cols |->
                                  IF c - 1 <= m.rows
                                  THEN Sub(At(m, r - 1, c - 1),
                                           Mul(factor, At(m, i, c - 1)))
                                  ELSE At(m, r - 1, c - 1)]
                      ELSE m.matrix[r]]]]

\* the accumulator loop of calculate_right for one row: the sum over
\* current_root_idx in 0..n of calculated_result[idx][0] * self[row_idx][idx]
RECURSIVE Accumulate(_, _, _, _)
Accumulate(self, calculated_result, row_idx, n) ==
    IF n = 0 THEN Zero
    ELSE Add(Accumulate(self, calculated_result, row_idx, n - 1),
             Mul(At(calculated_result, n - 1, 0), At(self, row_idx, n - 1)))

\* the number of rows calculate_right allocates for its result
CalculateRightRows(self) == self.cols - 1

\* calculate_right(&self, calculated_result).  It panics when self.cols - 1
\* underflows or cannot be allocated (cols = 0), when a read leaves self or
\* calculated_result, and when result[row_idx] does not exist.
CalculateRight(self, calculated_result) ==
    IF self.cols = 0 THEN Panicked
    ELSE IF /\ self.rows >= 1
            /\ calculated_result.rows >= 1
            /\ (calculated_result.rows > self.cols \/ calculated_result.cols = 0)
         THEN Panicked
    ELSE IF self.rows > CalculateRightRows(self) THEN Panicked
    ELSE Returned(
           [rows |-> CalculateRightRows(self), cols |-> 1,
            matrix |-> [r \in 1..CalculateRightRows(self) |->
                          [c \in 1..1 |->
                             IF r <= self.rows
                             THEN Accumulate(self, calculated_result, r - 1,
                                             calculated_result.rows)
                             ELSE Zero]]])

\* faulty variant of RhsCol: the first column is copied
RhsColFirst(self) == 0

\* the column get_rhs copies
RhsCol(self) == self.cols - 1

\* get_rhs(&self): the last column as a rows x 1 matrix; with cols = 0 and
\* rows >= 1 the index cols - 1 underflows or is out of range: a panic
GetRhs(self) ==
    IF self.rows >= 1 /\ self.cols = 0 THEN Panicked
    ELSE Returned(
           [rows |-> self.rows, cols |-> 1,
            matrix |-> [r \in 1..self.rows |->
                          [c \in 1..1 |-> At(self, r - 1, RhsCol(self))]]])

\* SubAssign: self -= rhs, elementwise; a shape mismatch panics
SubAssign(self, rhs) ==
    IF self.cols # rhs.cols \/ self.rows # rhs.rows THEN Panicked
    ELSE Returned(
           [rows |-> self.rows, cols |-> self.cols,
            matrix |-> [r \in 1..self.rows |->
                          [c \in 1..self.cols |->
                             Sub(At(self, r - 1, c - 1), At(rhs, r - 1, c - 1))]]])

\* epsilon[idx][0] = epsilon[idx][0].abs() for every row
AbsColumn(m) ==
    [m EXCEPT !.matrix = [r \in 1..m.rows |->
                            [c \in 1..m.cols |->
                               IF c = 1 THEN Abs(At(m, r - 1, 0))
                               ELSE At(m, r - 1, c - 1)]]]

\* result[i][0] = matrix[i][rows] / matrix[i][i] for every row
Extraction(m, rows) ==
    [rows |-> rows, cols |-> 1,
     matrix |-> [r \in 1..rows |->
                   [c \in 1..1 |-> Div(At(m, r - 1, rows), At(m, r - 1, r - 1))]]]

\* ---------------------------------------------------------------------
\* Inputs: the matrices a caller builds with Matrix::new and IndexMut
\* ---------------------------------------------------------------------
Vals == 0 .. MaxVal

OverrideVals == -1 .. MaxVal

\* a rows x cols matrix with d on the diagonal, u above it, l below it and
\* b in the last column
Toeplitz(rows, cols, d, u, l, b) ==
    [rows |-> rows, cols |-> cols,
     matrix |-> [r \in 1..rows |->
                   [c \in 1..cols |->
                      FromInt(IF c = cols THEN b
                              ELSE IF r = c THEN d
                              ELSE IF c > r THEN u ELSE l)]]]

\* column matrices passed to calculate_right: x0 in row 0, x1 below
RootColumn(n, x0, x1) ==
    [rows |-> n, cols |-> 1,
     matrix |-> [r \in 1..n |-> [c \in 1..1 |-> FromInt(IF r = 1 THEN x0 ELSE x1)]]]

\* ---------------------------------------------------------------------
\* State
\* ---------------------------------------------------------------------
VARIABLES
    op,            \* the public operation the caller invokes
    heap,          \* the matrices alive: self, cloned_matrix, calculated_result
    input,         \* the heap as the caller built it (never written)
    matrix,        \* what the handle `matrix` of gaussian_elimination refers to
    pc,            \* position inside the operation
    i, j,          \* loop counters of gaussian_elimination
    result,        \* gaussian_elimination's local `result`
    epsilon,       \* gaussian_elimination's local `epsilon`
    outcome,       \* "none", "Ok", "IncorrectSize", "UnableToCalculate", "panic"
    steps,         \* number of echelon and eliminate calls made so far
    divByZero,     \* a division with a zero divisor has been evaluated
    afterPhase1,   \* the working copy as phase 1 left it
    ret,           \* last return of calculate_right / get_rhs
    prevRet,       \* the return before that
    calls          \* number of calls of calculate_right / get_rhs made

vars == <<op, heap, input, matrix, pc, i, j, result, epsilon, outcome, steps,
          divByZero, afterPhase1, ret, prevRet, calls>>

Empty == MatrixNew(0, 0)

\* faulty variant of RcTarget: the handle refers to the caller's matrix
RcTargetSelf == "self"

\* the object the handle refers to: Rc::new(&mut cloned_matrix)
RcTarget == "cloned_matrix"

InitHeap(self, calculated_result) ==
    [self |-> self, cloned_matrix |-> Empty, calculated_result |-> calculated_result]

\* a matrix of any shape, the shapes gaussian_elimination rejects included
InitAnyShape(calculated_result) ==
    \E r \in 0..MaxN, c \in 0..(MaxN + 1), d \in Vals, u \in Vals, l \in Vals, b \in Vals :
        heap = InitHeap(Toeplitz(r, c, d, u, l, b), calculated_result)

\* an augmented n x (n+1) system, one cell overridden
InitSystem ==
    \E n \in 1..MaxN, d \in Vals, u \in Vals, l \in Vals, b \in Vals :
        \E r \in 0..(n - 1), c \in 0..n, v \in OverrideVals :
            heap = InitHeap(Set(Toeplitz(n, n + 1, d, u, l, b), r, c, FromInt(v)), Empty)

Init ==
    /\ \/ /\ op = "gaussian_elimination"
          /\ (InitSystem \/ InitAnyShape(Empty))
       \/ /\ op = "calculate_right"
          /\ \E n \in 0..(MaxN + 1), x0 \in OverrideVals, x1 \in Vals :
                InitAnyShape(RootColumn(n, x0, x1))
       \/ /\ op = "get_rhs"
          /\ (InitSystem \/ InitAnyShape(Empty))
    /\ input = heap
    /\ matrix = "none"
    /\ pc = "start"
    /\ i = 0
    /\ j = 0
    /\ result = Empty
    /\ epsilon = Empty
    /\ outcome = "none"
    /\ steps = 0
    /\ divByZero = FALSE
    /\ afterPhase1 = Empty
    /\ ret = Returned(Empty)
    /\ prevRet = Returned(Empty)
    /\ calls = 0

self == heap.self

\* return from gaussian_elimination with the given outcome
Finish(o) ==
    /\ outcome' = o
    /\ pc' = "done"

\* ---------------------------------------------------------------------
\* gaussian_elimination
\* ---------------------------------------------------------------------
\* line 90 with cols = 0, overflow checks on: `self.cols - 1` panics
SizeCheckOverflowPanics ==
    /\ op = "gaussian_elimination" /\ pc = "start"
    /\ self.cols = 0
    /\ Finish("panic")
    /\ UNCHANGED <<op, heap, input, matrix, i, j, result, epsilon, steps,
                   divByZero, afterPhase1, ret, prevRet, calls>>

\* line 90 with cols = 0, overflow checks off: `self.cols - 1` wraps to
\* usize::MAX, which no row count equals
SizeCheckOverflowWraps ==
    /\ op = "gaussian_elimination" /\ pc = "start"
    /\ self.cols = 0
    /\ Finish("IncorrectSize")
    /\ UNCHANGED <<op, heap, input, matrix, i, j, result, epsilon, steps,
                   divByZero, afterPhase1, ret, prevRet, calls>>

\* lines 90-92: the shape is not rows x (rows + 1)
SizeCheckFails ==
    /\ op = "gaussian_elimination" /\ pc = "start"
    /\ self.cols >= 1
    /\ self.cols - 1 # self.rows
    /\ Finish("IncorrectSize")
    /\ UNCHANGED <<op, heap, input, matrix, i, j, result, epsilon, steps,
                   divByZero, afterPhase1, ret, prevRet, calls>>

\* lines 90-94: the shape is accepted; clone self and take the handle
CloneSelf ==
    /\ op = "gaussian_elimination" /\ pc = "start"
    /\ self.cols >= 1
    /\ self.cols - 1 = self.rows
    /\ heap' = [heap EXCEPT !.cloned_matrix = Clone(self)]
    /\ matrix' = RcTarget
    /\ pc' = "phase1"
    /\ i' = 0
    /\ j' = 0
    /\ UNCHANGED <<op, input, result, epsilon, outcome, steps, divByZero,
                   afterPhase1, ret, prevRet, calls>>

\* line 96 with rows = 0: `self.rows - 1` panics, or wraps and echelon(0, 0)
\* indexes row 0 of an empty matrix, which panics as well
Phase1Underflow ==
    /\ pc = "phase1"
    /\ self.rows = 0
    /\ Finish("panic")
    /\ UNCHANGED <<op, heap, input, matrix, i, j, result, epsilon, steps,
                   divByZero, afterPhase1, ret, prevRet, calls>>

\* lines 96-100: one call echelon(i, j) and the advance of the two loops
EchelonStep ==
    /\ pc = "phase1"
    /\ self.rows >= 1
    /\ i < self.rows - 1
    /\ LET r == Echelon(heap[matrix], i, j)
       IN  /\ steps' = steps + 1
           /\ IF r.err
              THEN /\ Finish("UnableToCalculate")
                   /\ UNCHANGED <<heap, i, j, divByZero>>
              ELSE /\ heap' = [heap EXCEPT ![matrix] = r.m]
                   /\ divByZero' = (divByZero \/ IsZero(EchelonPivot(heap[matrix], i)))
                   /\ IF j + 1 < self.rows - 1
                      THEN i' = i /\ j' = j + 1
                      ELSE i' = i + 1 /\ j' = i + 1
                   /\ UNCHANGED <<pc, outcome>>
    /\ UNCHANGED <<op, input, matrix, result, epsilon, afterPhase1, ret, prevRet, calls>>

\* line 96 -> 103: the outer loop of phase 1 is exhausted; phase 2 starts
\* with i = rows - 1
Phase1Exit ==
    /\ pc = "phase1"
    /\ self.rows >= 1
    /\ i >= self.rows - 1
    /\ pc' = "phase2"
    /\ i' = self.rows - 1
    /\ afterPhase1' = heap[matrix]
    /\ UNCHANGED <<op, heap, input, matrix, j, result, epsilon, outcome, steps,
                   divByZero, ret, prevRet, calls>>

\* lines 103-105: one call eliminate(i)
EliminateStep ==
    /\ pc = "phase2"
    /\ i >= 1
    /\ LET r == Eliminate(heap[matrix], i)
       IN  /\ steps' = steps + 1
           /\ IF r.err
              THEN /\ Finish("UnableToCalculate")
                   /\ UNCHANGED <<heap, i, divByZero>>
              ELSE /\ heap' = [heap EXCEPT ![matrix] = r.m]
                   /\ divByZero' = (divByZero \/ IsZero(At(heap[matrix], i, i)))
                   /\ i' = i - 1
                   /\ UNCHANGED <<pc, outcome>>
    /\ UNCHANGED <<op, input, matrix, j, result, epsilon, afterPhase1, ret, prevRet, calls>>

\* line 103 -> 108: the loop of phase 2 is exhausted
Phase2Exit ==
    /\ pc = "phase2"
    /\ i < 1
    /\ pc' = "extract"
    /\ UNCHANGED <<op, heap, input, matrix, i, j, result, epsilon, outcome, steps,
                   divByZero, afterPhase1, ret, prevRet, calls>>

\* lines 108-111: result[i][0] = matrix[i][rows] / matrix[i][i]
ExtractStep ==
    /\ pc = "extract"
    /\ result' = Extraction(heap[matrix], self.rows)
    /\ divByZero' = (divByZero \/ \E r \in 0..(self.rows - 1) : IsZero(At(heap[matrix], r, r)))
    /\ pc' = "residual"
    /\ UNCHANGED <<op, heap, input, matrix, i, j, epsilon, outcome, steps,
                   afterPhase1, ret, prevRet, calls>>

\* lines 112-117: epsilon = |get_rhs(self) - calculate_right(self, result)|
ResidualStep ==
    /\ pc = "residual"
    /\ LET rhs == GetRhs(self)
           right == CalculateRight(self, result)
           diff == IF rhs.ok /\ right.ok THEN SubAssign(rhs.val, right.val) ELSE Panicked
       IN  IF diff.ok
           THEN epsilon' = AbsColumn(diff.val) /\ Finish("Ok")
           ELSE epsilon' = epsilon /\ Finish("panic")
    /\ UNCHANGED <<op, heap, input, matrix, i, j, result, steps, divByZero,
                   afterPhase1, ret, prevRet, calls>>

\* ---------------------------------------------------------------------
\* calculate_right and get_rhs called directly
\* ---------------------------------------------------------------------
CalculateRightCall ==
    /\ op = "calculate_right" /\ pc = "start"
    /\ ret' = CalculateRight(self, heap.calculated_result)
    /\ prevRet' = ret
    /\ calls' = calls + 1
    /\ pc' = "done"
    /\ UNCHANGED <<op, heap, input, matrix, i, j, result, epsilon, outcome, steps,
                   divByZero, afterPhase1>>

\* get_rhs is called twice on the same matrix
GetRhsCall ==
    /\ op = "get_rhs" /\ pc = "start"
    /\ ret' = GetRhs(self)
    /\ prevRet' = ret
    /\ calls' = calls + 1
    /\ pc' = IF calls = 1 THEN "done" ELSE pc
    /\ UNCHANGED <<op, heap, input, matrix, i, j, result, epsilon, outcome, steps,
                   divByZero, afterPhase1>>

Next ==
    \/ SizeCheckOverflowPanics
    \/ SizeCheckOverflowWraps
    \/ SizeCheckFails
    \/ CloneSelf
    \/ Phase1Underflow
    \/ EchelonStep
    \/ Phase1Exit
    \/ EliminateStep
    \/ Phase2Exit
    \/ ExtractStep
    \/ ResidualStep
    \/ CalculateRightCall
    \/ GetRhsCall

Spec == Init /\ [][Next]_vars

\* ---------------------------------------------------------------------
\* Properties
\* ---------------------------------------------------------------------
\* the matrix the caller passed
original == input.self

\* the private working copy of gaussian_elimination
working == heap.cloned_matrix

\* sum over k in 0..n-1 of m[row][k] * x[k][0]
RECURSIVE RowDot(_, _, _, _)
RowDot(m, x, row, n) ==
    IF n = 0 THEN Zero
    ELSE Add(RowDot(m, x, row, n - 1), Mul(At(m, row, n - 1), At(x, n - 1, 0)))

GaussDone == op = "gaussian_elimination" /\ pc = "done"

\* the input is an augmented n x (n+1) system with n >= 1
ValidSystem == original.rows >= 1 /\ original.cols = original.rows + 1

IsColumn(m, n) == m.rows = n /\ m.cols = 1

\* C1: whenever gaussian_elimination returns Ok on an n x (n+1) input, the
\* result is an n x 1 column whose entries are the reduced right-hand side
\* divided by the reduced diagonal, and it solves the original system.
C1_ResultSolvesSystem ==
    (GaussDone /\ ValidSystem /\ outcome = "Ok") =>
        /\ IsColumn(result, original.rows)
        /\ \A r \in 0..(original.rows - 1) :
              /\ result.matrix[r + 1][1] = Div(At(working, r, original.rows), At(working, r, r))
              /\ Eq(RowDot(original, result, r, original.rows), At(original, r, original.rows))

\* C2: a matrix with cols # rows + 1 (cols = 0 included) makes
\* gaussian_elimination return IncorrectSize, without a panic and without
\* any echelon or eliminate call.
C2_WrongShapeIsIncorrectSize ==
    (GaussDone /\ original.cols # original.rows + 1) =>
        (outcome = "IncorrectSize" /\ steps = 0)

\* C3: an n x (n+1) input (n >= 1) whose element [0][0] is zero makes
\* gaussian_elimination return UnableToCalculate, never Ok.
C3_ZeroFirstPivotFails ==
    (GaussDone /\ ValidSystem /\ IsZero(At(original, 0, 0))) =>
        outcome = "UnableToCalculate"

\* C4: gaussian_elimination never changes the caller's matrix, whatever the
\* outcome and at every point of the run; row operations touch only the
\* working copy.
C4_CallerMatrixUnchanged ==
    op = "gaussian_elimination" => heap.self = original

\* C4 witness: a failure in the middle of the elimination, after the working
\* copy was changed
C4_Witness ==
    /\ GaussDone /\ outcome = "UnableToCalculate"
    /\ steps >= 2
    /\ working # original
    /\ heap.self = original

\* C5: on every Ok outcome epsilon is an n x 1 column, entry i being
\* |original[i][n] - sum_k original[i][k] * result[k][0]|, so every entry is
\* >= 0 and, the arithmetic being exact, 0.
C5_EpsilonIsResidual ==
    (GaussDone /\ ValidSystem /\ outcome = "Ok") =>
        /\ IsColumn(epsilon, original.rows)
        /\ \A r \in 0..(original.rows - 1) :
              /\ epsilon.matrix[r + 1][1] =
                    Abs(Sub(At(original, r, original.rows),
                            RowDot(original, result, r, original.rows)))
              /\ GeZero(At(epsilon, r, 0))
              /\ IsZero(At(epsilon, r, 0))

\* C6: for a column matrix with at most self.cols rows, calculate_right
\* returns a self.rows x 1 matrix whose entry i is the sum over k of
\* rootsColumn[k][0] * self[i][k], and changes neither argument.
C6_CalculateRightIsProduct ==
    (op = "calculate_right" /\ pc = "done"
       /\ input.calculated_result.rows <= original.cols) =>
        /\ ret.ok
        /\ IsColumn(ret.val, original.rows)
        /\ \A r \in 0..(original.rows - 1) :
              Eq(ret.val.matrix[r + 1][1],
                 RowDot(original, input.calculated_result, r, input.calculated_result.rows))
        /\ heap = input

\* C7: for rows >= 1 and cols >= 1, get_rhs returns the rows x 1 column of
\* the entries self[i][cols-1], leaves self unchanged, and a second call
\* returns an equal column.
C7_GetRhsIsLastColumn ==
    (op = "get_rhs" /\ calls >= 1 /\ original.rows >= 1 /\ original.cols >= 1) =>
        /\ ret.ok
        /\ IsColumn(ret.val, original.rows)
        /\ \A r \in 0..(original.rows - 1) :
              Eq(At(ret.val, r, 0), At(original, r, original.cols - 1))
        /\ heap = input
        /\ (calls = 2 =>
              /\ prevRet.ok
              /\ IsColumn(prevRet.val, ret.val.rows)
              /\ \A r \in 0..(original.rows - 1) : Eq(At(prevRet.val, r, 0), At(ret.val, r, 0)))

\* C7 witness: the second call has returned, on a matrix whose last column
\* differs from its first and is not constant
C7_Witness ==
    /\ op = "get_rhs" /\ calls = 2 /\ pc = "done"
    /\ original.rows >= 2 /\ original.cols >= 2
    /\ At(original, 0, original.cols - 1) # At(original, 1, original.cols - 1)
    /\ At(original, 0, original.cols - 1) # At(original, 0, 0)
    /\ ret.ok

\* phase 1 has just completed: phase 2 is entered and no eliminate ran yet
Phase1Completed ==
    /\ op = "gaussian_elimination" /\ pc = "phase2"
    /\ i = original.rows - 1

\* C8: for n >= 2, when phase 1 completes the working copy is upper
\* triangular in its first n columns and its row 0 is row 0 of the input.
C8_UpperTriangularAfterPhase1 ==
    (Phase1Completed /\ original.rows >= 2) =>
        /\ \A r \in 0..(original.rows - 1), c \in 0..(original.rows - 1) :
              r > c => IsZero(At(working, r, c))
        /\ working.matrix[1] = original.matrix[1]

\* C8 witness: phase 1 completed on a 3 x 4 system with no zero below the
\* diagonal in the input
C8_Witness ==
    /\ Phase1Completed /\ original.rows = 3
    /\ steps = 3
    /\ \A r \in 0..2, c \in 0..2 : r > c => ~IsZero(At(original, r, c))
    /\ ~IsZero(At(working, 0, 1))

\* phase 2 has completed
Phase2Completed ==
    /\ op = "gaussian_elimination"
    /\ \/ pc \in {"extract", "residual"}
       \/ pc = "done" /\ outcome = "Ok"
    /\ original.rows >= 1

\* C9: when phase 2 completes the working copy is diagonal in its first n
\* columns, and its diagonal is the one phase 1 left.
C9_DiagonalAfterPhase2 ==
    Phase2Completed =>
        /\ \A r \in 0..(original.rows - 1), c \in 0..(original.rows - 1) :
              r # c => IsZero(At(working, r, c))
        /\ \A r \in 0..(original.rows - 1) : At(working, r, r) = At(afterPhase1, r, r)

\* C9 witness: phase 2 completed on a 3 x 4 system whose phase 1 left no
\* zero above the diagonal
C9_Witness ==
    /\ Phase2Completed /\ pc = "extract" /\ original.rows = 3
    /\ \A r \in 0..2, c \in 0..2 : r < c => ~IsZero(At(afterPhase1, r, c))

\* C10: whenever gaussian_elimination returns Ok on an n x (n+1) input with
\* n >= 1, no division it evaluated had a zero divisor.
C10_NoDivisionByZeroOnOk ==
    (GaussDone /\ ValidSystem /\ outcome = "Ok") => ~divByZero

====
